---------------------------- MODULE Spec2Model ----------------------------
(***************************************************************************)
(* Model of main.py, the single-URL TikTok downloader.                     *)
(*                                                                         *)
(* Spec      : repeated invocations of the script (main, download_tiktok,  *)
(*             has_ffmpeg, _print_tips, the engine calling progress_hook)  *)
(*             over a file system that persists between invocations.       *)
(* HookSpec  : progress_hook fed with arbitrary sequences of progress      *)
(*             dictionaries.                                               *)
(*                                                                         *)
(* Strings the code inspects (the URL, a file name) are sequences of       *)
(* one-character strings.  Standard output is a sequence of tokens; a      *)
(* line break and a carriage return are tokens of their own.               *)
(***************************************************************************)
EXTENDS Integers, Sequences, FiniteSets, TLC

VARIABLES
    run,            \* number of invocations of the script started so far
    pc,             \* position of the running process
    hasArg,         \* len(sys.argv) > 1
    url,            \* main: url, after .strip()
    dirExists,      \* file system: the directory tiktok_downloads exists
    dirAtStart,     \* value of dirExists when the process started
    files,          \* file system: target file of a URL -> run that wrote it, 0 = absent
    fetches,        \* per URL, how many times the engine fetched its content
    ffmpegOnPath,   \* what shutil.which("ffmpeg") found when has_ffmpeg ran
    knownPresent,   \* the fixed install paths that existed when has_ffmpeg ran
    importable,     \* the ImpersonateTarget import succeeded when it was tried
    downloadCalled, \* download_tiktok was entered by this process
    probed,         \* has_ffmpeg was called by this process
    ffmpeg_ok,      \* download_tiktok: ffmpeg_ok
    opts,           \* download_tiktok: opts
    engineCalled,   \* ydl.extract_info was called by this process
    engineResult,   \* how extract_info ended
    ret,            \* value returned by download_tiktok
    exitCode,       \* exit status set by the script, -1 while none is set
    out,            \* standard output of the process
    events,         \* progress dictionaries handed to progress_hook so far
    hookRaised      \* progress_hook raised

vars == << run, pc, hasArg, url, dirExists, dirAtStart, files, fetches,
           ffmpegOnPath, knownPresent, importable, downloadCalled, probed,
           ffmpeg_ok, opts, engineCalled, engineResult, ret, exitCode, out,
           events, hookRaised >>

---------------------------------------------------------------------------
(* Bounds *)

MaxRuns == 2

MaxEngineEvents == 1

MaxHookEvents == 3

MaxPathLen == 3

---------------------------------------------------------------------------
(* Strings *)

Http == << "h", "t", "t", "p" >>

HttpScheme == Http \o << ":", "/", "/" >>

HttpsScheme == Http \o << "s", ":", "/", "/" >>

IsSpace(c) == c = " "

RECURSIVE LStrip(_)
LStrip(s) == IF s # << >> /\ IsSpace(Head(s)) THEN LStrip(Tail(s)) ELSE s

RECURSIVE RStrip(_)
RStrip(s) ==
    IF s # << >> /\ IsSpace(s[Len(s)]) THEN RStrip(SubSeq(s, 1, Len(s) - 1)) ELSE s

\* str.strip()
Strip(s) == RStrip(LStrip(s))

\* str.startswith(p)
StartsWith(s, p) == Len(s) >= Len(p) /\ SubSeq(s, 1, Len(p)) = p

\* index of the last "/" of p, 0 when there is none
RECURSIVE LastSlash(_, _)
LastSlash(p, i) == IF i = 0 THEN 0 ELSE IF p[i] = "/" THEN i ELSE LastSlash(p, i - 1)

\* os.path.basename(p)
Basename(p) == SubSeq(p, LastSlash(p, Len(p)) + 1, Len(p))

\* dict.get(k, default)
Get(d, k, default) == IF k \in DOMAIN d THEN d[k] ELSE default

---------------------------------------------------------------------------
(* Standard output *)

Tok(t) == [t |-> t, arg |-> << >>]

TokA(t, a) == [t |-> t, arg |-> a]

NL == Tok("NL")

CR == Tok("CR")

\* print(x): the text, then the default end, a line break
Println(toks) == toks \o << NL >>

---------------------------------------------------------------------------
(* progress_hook *)

Quiet == [raised |-> FALSE, out |-> << >>]

KeyError == [raised |-> TRUE, out |-> << >>]

Wrote(toks) == [raised |-> FALSE, out |-> toks]

\* the text of the live status line: percent | speed | ETA
ProgressText(d) ==
    Strip(Get(d, "_percent_str", << "?", "%" >>)) \o << "|" >>
        \o Strip(Get(d, "_speed_str", << "?" >>)) \o << "|" >>
        \o Strip(Get(d, "_eta_str", << "?" >>))

progress_hook_newline(d) ==
    IF "status" \notin DOMAIN d THEN KeyError
    ELSE IF d["status"] = "downloading"
        THEN Wrote(Println(<< CR, TokA("progress", ProgressText(d)) >>))
    ELSE IF d["status"] = "finished"
        THEN IF "filename" \notin DOMAIN d THEN KeyError
             ELSE Wrote(Println(<< NL, TokA("complete", Basename(d["filename"])) >>))
    ELSE IF d["status"] = "error"
        THEN Wrote(Println(<< NL, Tok("hook_error") >>))
    ELSE Quiet

\* progress_hook(d): what it writes, or that d["..."] raised KeyError
progress_hook(d) ==
    IF "status" \notin DOMAIN d THEN KeyError
    ELSE IF d["status"] = "downloading"
        THEN Wrote(<< CR, TokA("progress", ProgressText(d)) >>)
    ELSE IF d["status"] = "finished"
        THEN IF "filename" \notin DOMAIN d THEN KeyError
             ELSE Wrote(Println(<< NL, TokA("complete", Basename(d["filename"])) >>))
    ELSE IF d["status"] = "error"
        THEN Wrote(Println(<< NL, Tok("hook_error") >>))
    ELSE Quiet

---------------------------------------------------------------------------
(* Progress dictionaries *)

PathChars == { "/", "f" }

Paths == UNION { [1..k -> PathChars] : k \in 0..MaxPathLen }

DownloadingBare == "status" :> "downloading"

DownloadingFull ==
    ("status" :> "downloading") @@ ("_percent_str" :> << " ", "5", "%" >>)
        @@ ("_speed_str" :> << "1", " " >>) @@ ("_eta_str" :> << "9" >>)

Finished(p) == ("status" :> "finished") @@ ("filename" :> p)

FinishedNoName == "status" :> "finished"

ErrorEvent == "status" :> "error"

UnknownEvent == "status" :> "paused"

NoStatusEvent == "_eta_str" :> << "9" >>

\* every dictionary progress_hook is tried on
HookEvents ==
    { DownloadingBare, DownloadingFull, FinishedNoName, ErrorEvent,
      UnknownEvent, NoStatusEvent } \cup { Finished(p) : p \in Paths }

\* the dictionaries the engine hands to its progress hooks: a status is
\* always present, a finished one names its file
EngineEvents ==
    { DownloadingFull, Finished(<< "f", "/", "f" >>), ErrorEvent, UnknownEvent }

---------------------------------------------------------------------------
(* has_ffmpeg *)

KnownPaths == { "C:/ffmpeg/bin/ffmpeg.exe", "C:/Program Files/ffmpeg/bin/ffmpeg.exe" }

\* has_ffmpeg(): on the PATH, or at one of the fixed install locations
has_ffmpeg(onPath, present) ==
    IF onPath THEN TRUE
    ELSE IF \E p \in KnownPaths : p \in present THEN TRUE
    ELSE FALSE

---------------------------------------------------------------------------
(* download_tiktok: the request *)

OutputDir == "tiktok_downloads"

\* the three adjacent literals of the remux format expression
FmtRemux ==
    << "bestvideo[ext=mp4]+bestaudio[ext=m4a]", "/" >>
        \o << "bestvideo[ext=mp4]+bestaudio", "/" >>
        \o << "bestvideo+bestaudio", "/", "best" >>

FmtPremuxed == << "best[ext=mp4]", "/", "best" >>

Convertor == [key |-> "FFmpegVideoConvertor", preferedformat |-> "mp4"]

PolicyAlwaysConvert(ok) ==
    IF ok
    THEN [fmt |-> FmtRemux, postprocessors |-> << Convertor >>, msg |-> "ffmpeg_detected"]
    ELSE [fmt |-> FmtPremuxed, postprocessors |-> << Convertor >>, msg |-> "ffmpeg_not_found"]

\* the branch on ffmpeg_ok: fmt, postprocessors and the line printed
Policy(ok) ==
    IF ok
    THEN [fmt |-> FmtRemux, postprocessors |-> << Convertor >>, msg |-> "ffmpeg_detected"]
    ELSE [fmt |-> FmtPremuxed, postprocessors |-> << >>, msg |-> "ffmpeg_not_found"]

HttpHeaders ==
    [UserAgent |-> "Mozilla/5.0 ... Chrome/124.0.0.0 Safari/537.36",
     Referer |-> "https://www.tiktok.com/",
     AcceptLanguage |-> "en-US,en;q=0.9"]

BaseOptsOverwriting(output_dir, fmt) ==
    [outtmpl |-> << output_dir, "%(uploader)s", "%(title)s.%(ext)s" >>,
     format |-> fmt,
     merge_output_format |-> "mp4",
     nooverwrites |-> FALSE,
     quiet |-> FALSE,
     no_warnings |-> FALSE,
     progress_hooks |-> << "progress_hook" >>,
     http_headers |-> HttpHeaders]

\* the opts literal
BaseOpts(output_dir, fmt) ==
    [outtmpl |-> << output_dir, "%(uploader)s", "%(title)s.%(ext)s" >>,
     format |-> fmt,
     merge_output_format |-> "mp4",
     nooverwrites |-> TRUE,
     quiet |-> FALSE,
     no_warnings |-> FALSE,
     progress_hooks |-> << "progress_hook" >>,
     http_headers |-> HttpHeaders]

ImpersonateTarget == << "chrome", "124" >>

TryImpersonateUncaught(o, canImport) ==
    IF canImport
    THEN [raised |-> FALSE,
          opts |-> ("impersonate" :> ImpersonateTarget) @@ o,
          out |-> Println(<< Tok("impersonation_enabled"), NL >>)]
    ELSE [raised |-> TRUE, opts |-> o, out |-> << >>]

\* try: import ImpersonateTarget, set opts["impersonate"], print;
\* except Exception: pass
TryImpersonate(o, canImport) ==
    IF canImport
    THEN [raised |-> FALSE,
          opts |-> ("impersonate" :> ImpersonateTarget) @@ o,
          out |-> Println(<< Tok("impersonation_enabled"), NL >>)]
    ELSE [raised |-> FALSE, opts |-> o, out |-> << >>]

\* if postprocessors: opts["postprocessors"] = postprocessors
WithPostprocessors(o, pp) ==
    IF pp # << >> THEN ("postprocessors" :> pp) @@ o ELSE o

---------------------------------------------------------------------------
(* download_tiktok: the outcome *)

CatchesEverything(exc) == TRUE

\* except yt_dlp.utils.DownloadError
Catches(exc) == exc = "DownloadError"

PrintTipsShort ==
    Println(<< NL, Tok("tips_header") >>)
        \o Println(<< Tok("tip_public") >>)
        \o Println(<< Tok("tip_update_ytdlp") >>)
        \o Println(<< Tok("tip_curl_cffi") >>)
        \o Println(<< Tok("tip_cookies") >>)
        \o Println(<< Tok("tip_vpn"), NL >>)

\* _print_tips()
PrintTips ==
    Println(<< NL, Tok("tips_header") >>)
        \o Println(<< Tok("tip_public") >>)
        \o Println(<< Tok("tip_update_ytdlp") >>)
        \o Println(<< Tok("tip_curl_cffi") >>)
        \o Println(<< Tok("tip_ffmpeg") >>)
        \o Println(<< Tok("tip_cookies") >>)
        \o Println(<< Tok("tip_vpn"), NL >>)

\* info.get("uploader", "unknown") if info else "unknown"
Uploader(info) ==
    IF info # "None" /\ info # "NoUploader" THEN info ELSE "unknown"

\* what extract_info can return: None, metadata without an uploader,
\* metadata naming one
Infos == { "None", "NoUploader", "alice" }

Messages == { << "e", "1" >>, << "e", "2" >> }

Exceptions == { "DownloadError", "OtherError" }

---------------------------------------------------------------------------
(* main *)

Inputs ==
    { << >>,
      << " ", " " >>,
      << "n", "o", "t", "-", "a", "-", "u", "r", "l" >>,
      Http \o << "f", "o", "o" >>,
      HttpScheme \o << "a" >>,
      HttpsScheme \o << "a" >>,
      << " " >> \o HttpsScheme \o << "a", " " >> }

CheckUrlEmptyOnly(u) == IF u = << >> THEN "no_url" ELSE "ok"

\* the two checks of main on the trimmed url
CheckUrl(u) ==
    IF u = << >> THEN "no_url"
    ELSE IF ~ StartsWith(u, Http) THEN "invalid_url"
    ELSE "ok"

\* the URLs a process can hold after trimming
Targets == { Strip(i) : i \in Inputs }

ExitOnFailure(result) == IF result = "False" THEN 1 ELSE 0

\* main returns after download_tiktok(url), whose result it discards
ExitAfterDownload(result) == 0

Banner ==
    Println(<< Tok("rule") >>) \o Println(<< Tok("title") >>) \o Println(<< Tok("rule") >>)

Prompt ==
    Println(<< NL, Tok("paste_hint") >>) \o Println(<< Tok("example"), NL >>)
        \o << Tok("prompt") >>

NoOpts == [k \in {} |-> k]

---------------------------------------------------------------------------
(* The script, invoked up to MaxRuns times *)

Init ==
    /\ run = 0
    /\ pc = "idle"
    /\ hasArg = FALSE
    /\ url = << >>
    /\ dirExists \in BOOLEAN
    /\ dirAtStart = dirExists
    /\ files = [u \in Targets |-> 0]
    /\ fetches = [u \in Targets |-> 0]
    /\ ffmpegOnPath = FALSE
    /\ knownPresent = {}
    /\ importable = FALSE
    /\ downloadCalled = FALSE
    /\ probed = FALSE
    /\ ffmpeg_ok = FALSE
    /\ opts = NoOpts
    /\ engineCalled = FALSE
    /\ engineResult = "none"
    /\ ret = "none"
    /\ exitCode = -1
    /\ out = << >>
    /\ events = << >>
    /\ hookRaised = FALSE

\* A new process: the banner, then the URL from sys.argv[1] or from input(),
\* trimmed.  Nothing of the environment has been looked at yet.
StartRun(raw, arg) ==
    /\ pc \in { "idle", "exited", "crashed" }
    /\ run < MaxRuns
    /\ run' = run + 1
    /\ hasArg' = arg
    /\ url' = Strip(raw)
    /\ out' = IF arg THEN Banner ELSE Banner \o Prompt
    /\ pc' = "validate"
    /\ dirAtStart' = dirExists
    /\ ffmpegOnPath' = FALSE
    /\ knownPresent' = {}
    /\ importable' = FALSE
    /\ downloadCalled' = FALSE
    /\ probed' = FALSE
    /\ ffmpeg_ok' = FALSE
    /\ opts' = NoOpts
    /\ engineCalled' = FALSE
    /\ engineResult' = "none"
    /\ ret' = "none"
    /\ exitCode' = -1
    /\ events' = << >>
    /\ hookRaised' = FALSE
    /\ UNCHANGED << dirExists, files, fetches >>

\* main: the checks on url; sys.exit(1), or print() and go on
ValidateUrl ==
    /\ pc = "validate"
    /\ IF CheckUrl(url) = "ok"
       THEN /\ out' = out \o Println(<< >>)
            /\ pc' = "download"
            /\ UNCHANGED exitCode
       ELSE /\ out' = out \o Println(<< Tok(CheckUrl(url)) >>)
            /\ exitCode' = 1
            /\ pc' = "exited"
    /\ UNCHANGED << run, hasArg, url, dirExists, dirAtStart, files, fetches,
                    ffmpegOnPath, knownPresent, importable, downloadCalled,
                    probed, ffmpeg_ok, opts, engineCalled, engineResult, ret,
                    events, hookRaised >>

\* download_tiktok(url): makedirs, the probe (which finds onPath and
\* present), the policy, the opts literal
DownloadPrepare(onPath, present) ==
    /\ pc = "download"
    /\ ffmpegOnPath' = onPath
    /\ knownPresent' = present
    /\ downloadCalled' = TRUE
    /\ dirExists' = TRUE
    /\ probed' = TRUE
    /\ ffmpeg_ok' = has_ffmpeg(onPath, present)
    /\ out' = out \o Println(<< Tok(Policy(ffmpeg_ok').msg), NL >>)
    /\ opts' = BaseOpts(OutputDir, Policy(ffmpeg_ok').fmt)
    /\ pc' = "impersonate"
    /\ UNCHANGED << run, hasArg, url, dirAtStart, files, fetches, importable,
                    engineCalled, engineResult, ret, exitCode, events,
                    hookRaised >>

\* download_tiktok: the impersonation attempt (the import works or not),
\* then the postprocessors
FinishOpts(canImport) ==
    /\ pc = "impersonate"
    /\ importable' = canImport
    /\ LET r == TryImpersonate(opts, canImport) IN
       IF r.raised
       THEN /\ pc' = "crashed"
            /\ UNCHANGED << opts, out >>
       ELSE /\ opts' = WithPostprocessors(r.opts, Policy(ffmpeg_ok).postprocessors)
            /\ out' = out \o r.out
            /\ pc' = "engine"
    /\ UNCHANGED << run, hasArg, url, dirExists, dirAtStart, files, fetches,
                    ffmpegOnPath, knownPresent, downloadCalled, probed,
                    ffmpeg_ok, engineCalled, engineResult, ret, exitCode,
                    events, hookRaised >>

\* with yt_dlp.YoutubeDL(opts) as ydl: ydl.extract_info(url, download=True)
EngineCall ==
    /\ pc = "engine"
    /\ engineCalled' = TRUE
    /\ pc' = "transfer"
    /\ UNCHANGED << run, hasArg, url, dirExists, dirAtStart, files, fetches,
                    ffmpegOnPath, knownPresent, importable, downloadCalled,
                    probed, ffmpeg_ok, opts, engineResult, ret, exitCode, out,
                    events, hookRaised >>

\* the engine, inside extract_info, calls the registered progress hook
EngineProgress(e) ==
    /\ pc = "transfer"
    /\ Len(events) < MaxEngineEvents
    /\ events' = Append(events, e)
    /\ LET r == progress_hook(e) IN
       IF r.raised
       THEN /\ hookRaised' = TRUE
            /\ engineResult' = "OtherError"
            /\ pc' = "crashed"
            /\ UNCHANGED out
       ELSE /\ out' = out \o r.out
            /\ UNCHANGED << hookRaised, engineResult, pc >>
    /\ UNCHANGED << run, hasArg, url, dirExists, dirAtStart, files, fetches,
                    ffmpegOnPath, knownPresent, importable, downloadCalled,
                    probed, ffmpeg_ok, opts, engineCalled, ret, exitCode >>

\* the engine finds the target already there and overwrite protection on
Skips(o, u) == files[u] # 0 /\ o.nooverwrites

\* extract_info returns info: the engine has written the target unless it
\* skipped it; download_tiktok prints where and returns True
EngineSucceeds(info) ==
    /\ pc = "transfer"
    /\ engineResult' = "ok"
    /\ IF Skips(opts, url)
       THEN UNCHANGED << files, fetches >>
       ELSE /\ files' = [files EXCEPT ![url] = run]
            /\ fetches' = [fetches EXCEPT ![url] = @ + 1]
    /\ out' = out \o Println(<< NL, TokA("saved", << OutputDir, Uploader(info) >>) >>)
    /\ ret' = "True"
    /\ pc' = "returned"
    /\ UNCHANGED << run, hasArg, url, dirExists, dirAtStart, ffmpegOnPath,
                    knownPresent, importable, downloadCalled, probed,
                    ffmpeg_ok, opts, engineCalled, exitCode, events,
                    hookRaised >>

\* extract_info raises exc with message msg: the except clause prints it
\* and the tips and returns False, or the exception leaves download_tiktok
EngineRaises(exc, msg) ==
    /\ pc = "transfer"
    /\ engineResult' = exc
    /\ IF Catches(exc)
       THEN /\ out' = out \o Println(<< NL, TokA("download_failed", msg) >>) \o PrintTips
            /\ ret' = "False"
            /\ pc' = "returned"
       ELSE /\ pc' = "crashed"
            /\ UNCHANGED << out, ret >>
    /\ UNCHANGED << run, hasArg, url, dirExists, dirAtStart, files, fetches,
                    ffmpegOnPath, knownPresent, importable, downloadCalled,
                    probed, ffmpeg_ok, opts, engineCalled, exitCode, events,
                    hookRaised >>

\* main returns; the interpreter exits
MainReturn ==
    /\ pc = "returned"
    /\ exitCode' = ExitAfterDownload(ret)
    /\ pc' = "exited"
    /\ UNCHANGED << run, hasArg, url, dirExists, dirAtStart, files, fetches,
                    ffmpegOnPath, knownPresent, importable, downloadCalled,
                    probed, ffmpeg_ok, opts, engineCalled, engineResult, ret,
                    out, events, hookRaised >>

Next ==
    \/ \E raw \in Inputs, arg \in BOOLEAN : StartRun(raw, arg)
    \/ ValidateUrl
    \/ \E onPath \in BOOLEAN, present \in SUBSET KnownPaths :
            DownloadPrepare(onPath, present)
    \/ \E canImport \in BOOLEAN : FinishOpts(canImport)
    \/ EngineCall
    \/ \E e \in EngineEvents : EngineProgress(e)
    \/ \E info \in Infos : EngineSucceeds(info)
    \/ \E exc \in Exceptions, msg \in Messages : EngineRaises(exc, msg)
    \/ MainReturn

Spec == Init /\ [][Next]_vars

---------------------------------------------------------------------------
(* progress_hook on its own *)

HookInit ==
    /\ run = 0
    /\ pc = "hook"
    /\ hasArg = FALSE
    /\ url = << >>
    /\ dirExists = FALSE
    /\ dirAtStart = FALSE
    /\ files = [u \in Targets |-> 0]
    /\ fetches = [u \in Targets |-> 0]
    /\ ffmpegOnPath = FALSE
    /\ knownPresent = {}
    /\ importable = FALSE
    /\ downloadCalled = FALSE
    /\ probed = FALSE
    /\ ffmpeg_ok = FALSE
    /\ opts = NoOpts
    /\ engineCalled = FALSE
    /\ engineResult = "none"
    /\ ret = "none"
    /\ exitCode = -1
    /\ out = << >>
    /\ events = << >>
    /\ hookRaised = FALSE

\* one call progress_hook(e); nothing is called after a call that raised
HookFeed(e) ==
    /\ pc = "hook"
    /\ ~ hookRaised
    /\ Len(events) < MaxHookEvents
    /\ events' = Append(events, e)
    /\ hookRaised' = progress_hook(e).raised
    /\ out' = out \o progress_hook(e).out
    /\ UNCHANGED << run, pc, hasArg, url, dirExists, dirAtStart, files,
                    fetches, ffmpegOnPath, knownPresent, importable,
                    downloadCalled, probed, ffmpeg_ok, opts, engineCalled,
                    engineResult, ret, exitCode >>

HookNext == \E e \in HookEvents : HookFeed(e)

HookSpec == HookInit /\ [][HookNext]_vars

---------------------------------------------------------------------------
(* Properties *)

\* the process has finished building opts
OptsComplete ==
    \/ pc \in { "engine", "transfer", "returned" }
    \/ pc \in { "exited", "crashed" } /\ engineCalled

\* the tiers of a format expression: the pieces between the "/"
RECURSIVE Tiers(_)
Tiers(f) ==
    IF \E i \in 1..Len(f) : f[i] = "/"
    THEN LET i == CHOOSE k \in 1..Len(f) : f[k] = "/" /\ \A m \in 1..(k - 1) : f[m] # "/"
         IN << SubSeq(f, 1, i - 1) >> \o Tiers(SubSeq(f, i + 1, Len(f)))
    ELSE << f >>

Hints ==
    << "tip_public", "tip_update_ytdlp", "tip_curl_cffi", "tip_ffmpeg",
       "tip_cookies", "tip_vpn" >>

IsHint(tok) ==
    tok.t \in { "tip_public", "tip_update_ytdlp", "tip_curl_cffi", "tip_ffmpeg",
                "tip_cookies", "tip_vpn" }

IsFailureOrHint(tok) == tok.t = "download_failed" \/ IsHint(tok)

NotAUrl == << "n", "o", "t", "-", "a", "-", "u", "r", "l" >>

\* C1: a process whose trimmed URL is empty or does not start with "http"
\* gets no further than the checks of main: once it has ended its exit code
\* is 1, download_tiktok was not entered, has_ffmpeg was not run, the engine
\* was not called, and the output directory and the files are as the
\* process found them.
C1_InvalidUrlExitsBeforeDownload ==
    (pc # "idle" /\ (Len(url) < 4 \/ SubSeq(url, 1, 4) # << "h", "t", "t", "p" >>)) =>
        /\ pc \in { "validate", "exited" }
        /\ pc = "exited" => exitCode = 1
        /\ ~ downloadCalled
        /\ ~ probed
        /\ ~ engineCalled
        /\ opts = NoOpts
        /\ dirExists = dirAtStart

C1_Witness ==
    /\ pc = "exited"
    /\ exitCode = 1
    /\ url = NotAUrl
    /\ ~ dirExists

\* C2: every URL that gets past the checks of main is non-empty and begins
\* with "http://" or "https://" (so "httpfoo" is rejected).
C2_ValidatedUrlHasScheme ==
    (pc = "download" \/ downloadCalled) =>
        /\ url # << >>
        /\ \/ StartsWith(url, HttpScheme)
           \/ StartsWith(url, HttpsScheme)

\* C3: once opts is complete it is determined by the probed capability:
\* with ffmpeg the format has the four tiers and postprocessors is the one
\* convert-to-mp4 entry; without it the format has the two tiers and opts has
\* no postprocessors.
C3_PolicyFollowsCapability ==
    OptsComplete =>
        /\ ffmpeg_ok = (ffmpegOnPath \/ knownPresent # {})
        /\ IF ffmpeg_ok
           THEN /\ Tiers(opts.format) =
                       << << "bestvideo[ext=mp4]+bestaudio[ext=m4a]" >>,
                          << "bestvideo[ext=mp4]+bestaudio" >>,
                          << "bestvideo+bestaudio" >>,
                          << "best" >> >>
                /\ "postprocessors" \in DOMAIN opts
                /\ Len(opts.postprocessors) = 1
                /\ opts.postprocessors[1].key = "FFmpegVideoConvertor"
                /\ opts.postprocessors[1].preferedformat = "mp4"
           ELSE /\ Tiers(opts.format) = << << "best[ext=mp4]" >>, << "best" >> >>
                /\ "postprocessors" \notin DOMAIN opts

C3_Witness ==
    /\ pc = "transfer"
    /\ ffmpeg_ok
    /\ ~ ffmpegOnPath
    /\ "postprocessors" \in DOMAIN opts

\* what follows the engine's message on standard output
FailureTail(msg) ==
    << NL, TokA("download_failed", msg), NL,
       NL, Tok("tips_header"), NL,
       Tok("tip_public"), NL,
       Tok("tip_update_ytdlp"), NL,
       Tok("tip_curl_cffi"), NL,
       Tok("tip_ffmpeg"), NL,
       Tok("tip_cookies"), NL,
       Tok("tip_vpn"), NL, NL >>

\* C4: when extract_info raised DownloadError, download_tiktok returned
\* False, nothing crashed, and the output ends with the error message
\* followed by the six hints in their fixed order; no other hint or failure
\* line was written.
C4_DownloadErrorGivesFailureAndSixHints ==
    engineResult = "DownloadError" =>
        /\ pc \in { "returned", "exited" }
        /\ ret = "False"
        /\ Len(out) >= 19
        /\ LET last19 == SubSeq(out, Len(out) - 18, Len(out))
           IN  \E msg \in Messages : last19 = FailureTail(msg)
        /\ LET marks == SelectSeq(out, IsFailureOrHint)
           IN  /\ Len(marks) = 7
               /\ marks[1].t = "download_failed"
               /\ \A i \in 1..6 : marks[i + 1].t = Hints[i]

C4_Witness ==
    /\ pc = "exited"
    /\ engineResult = "DownloadError"
    /\ ret = "False"
    /\ events # << >>

C6_MissingCapabilityNeverAborts ==
    /\ ffmpeg_ok \in BOOLEAN
    /\ pc = "crashed" => (engineCalled /\ engineResult = "OtherError")
    /\ OptsComplete =>
          IF importable
          THEN "impersonate" \in DOMAIN opts /\ opts.impersonate = << "chrome", "124" >>
          ELSE "impersonate" \notin DOMAIN opts
    /\ ret # "none" => engineCalled

C6_Witness ==
    /\ pc = "exited"
    /\ probed
    /\ ~ ffmpeg_ok
    /\ ~ importable
    /\ engineCalled
    /\ ret = "True"

\* C7: every engine call is made with overwrite protection on, under both
\* policies, and a target file that exists is never written or fetched
\* again by a later step: a second run on the same URL leaves it as the
\* first run wrote it.
C7_ExistingFileNeverRewritten ==
    /\ [](engineCalled => opts.nooverwrites)
    /\ [][\A u \in Targets :
            files[u] # 0 => (files'[u] = files[u] /\ fetches'[u] = fetches[u])]_vars

C7_Witness ==
    /\ run = 2
    /\ pc = "returned"
    /\ engineResult = "ok"
    /\ files[url] = 1
    /\ fetches[url] = 1

\* C8: an engine failure other than DownloadError is not caught: the process
\* crashes with no outcome returned, no failure line and no hint printed;
\* False is returned only for DownloadError.
C8_OtherFailuresPropagate ==
    /\ engineResult = "OtherError" =>
          /\ pc = "crashed"
          /\ ret = "none"
          /\ exitCode = -1
          /\ SelectSeq(out, IsFailureOrHint) = << >>
    /\ ret = "False" => engineResult = "DownloadError"

C8_Witness ==
    /\ pc = "crashed"
    /\ engineResult = "OtherError"
    /\ events # << >>

IsDownloading(e) == "status" \in DOMAIN e /\ e["status"] = "downloading"

IsFinished(e) ==
    "status" \in DOMAIN e /\ e["status"] = "finished" /\ "filename" \in DOMAIN e

\* n Downloading dictionaries, then one Finished
DownloadingThenFinished ==
    /\ events # << >>
    /\ IsFinished(events[Len(events)])
    /\ \A i \in 1..(Len(events) - 1) : IsDownloading(events[i])

\* C9: after n Downloading dictionaries and one Finished, the output is n
\* times (carriage return, status text) with no line break, then a line
\* break, one completion line and its line break; the completion line names
\* the part of the file name after its last "/".
C9_OneCompletionLine ==
    DownloadingThenFinished =>
        LET n == Len(events) - 1
            name == events[Len(events)]["filename"]
        IN  /\ ~ hookRaised
            /\ Len(out) = 2 * n + 3
            /\ \A i \in 1..n : out[2 * i - 1] = CR /\ out[2 * i].t = "progress"
            /\ out[2 * n + 1] = NL
            /\ out[2 * n + 2].t = "complete"
            /\ out[2 * n + 3] = NL
            /\ LET base == out[2 * n + 2].arg
                   cut == Len(name) - Len(base)
               IN  /\ \A i \in 1..Len(base) : base[i] # "/"
                   /\ cut >= 0
                   /\ SubSeq(name, cut + 1, Len(name)) = base
                   /\ cut > 0 => name[cut] = "/"

C9_Witness ==
    /\ pc = "hook"
    /\ DownloadingThenFinished
    /\ Len(events) = 3
    /\ events[3]["filename"] = << "f", "/", "f" >>

\* a dictionary that is none of downloading, finished, error
IsOther(e) ==
    \/ "status" \notin DOMAIN e
    \/ e["status"] \notin { "downloading", "finished", "error" }

\* C10: progress_hook, given only dictionaries whose status is absent or is
\* none of downloading, finished, error, writes nothing and does not raise.
C10_OtherStatusIsNoOp ==
    (events # << >> /\ \A i \in 1..Len(events) : IsOther(events[i])) =>
        (out = << >> /\ ~ hookRaised)

====
